---- MODULE Spec2Model ----
(***************************************************************************)
(* Model of the incremental JSON number parser (program::number_parser),   *)
(* its text builders, and the grind harness that re-parses every two-way   *)
(* split of an input.                                                      *)
(*                                                                         *)
(* Text is a sequence of one-character strings.  A chunk is a range        *)
(* [begin, end) of 0-based positions into a buffer, as the iterator pair   *)
(* of the source; the byte at position p is buf[p + 1].                    *)
(***************************************************************************)
EXTENDS Integers, Sequences, FiniteSets, TLC

\* ---------------------------------------------------------------- bounds
MaxLen == 4
MaxFinalise == 2

\* ------------------------------------------------------------ input space
Digits == {"0", "1", "2", "3", "4", "5", "6", "7", "8", "9"}

Alphabet == {"0", "1", "+", "-", ".", "e", "E", "x"}

Examples ==
  { <<"1", "0", "0", ".", "0">>,
    <<"1", "0", "0", ".", "0", "x">>,
    <<"1", "E", "+", "5">>,
    <<"1", "e", "-", "5">>,
    <<"0", ".", "5">>,
    <<"+", "5">>,
    <<"-", "5">>,
    <<"-", "1", ".", "5", "e", "-", "5">> }

Inputs == UNION { [1..n -> Alphabet] : n \in 0..MaxLen } \cup Examples

\* --------------------------------------------------------------- builders
\* mantissa_notify_negative, had the minus sign been dropped
mantissa_notify_negative_Dropped(buffer) == buffer

mantissa_notify_negative(buffer) == Append(buffer, "-")

mantissa_notify_decimal(buffer) == Append(buffer, ".")

mantissa_notify_digit(buffer, c) == Append(buffer, c)

mantissa_finalise(buffer) == IF buffer = <<>> THEN <<"0">> ELSE buffer

exponent_notify_digit(buffer, c) == Append(buffer, c)

exponent_notify_negative(buffer) == Append(buffer, "-")

\* exponent_finalise, had it not defaulted an empty buffer to "0"
exponent_finalise_NoDefault(buffer) == <<"e">> \o buffer

exponent_finalise(buffer) ==
  <<"e">> \o (IF buffer = <<>> THEN <<"0">> ELSE buffer)

\* ------------------------------------------------------------ the parser
None == "None"
InvalidArgument == "InvalidArgument"

\* asio::coroutine: value_ is 0 when fresh, -1 when complete, and the line
\* of the yield at which the body is suspended otherwise.
Fresh == 0
Complete == -1

number_parser ==
  [value |-> Fresh, mantissa_ |-> <<>>, exponent_ |-> <<>>, error_ |-> None]

is_complete(np) == np.value = Complete

\* exhausted, had the end of the chunk been noticed one byte late
exhausted_Late(p, end) == p > end

exhausted(p, end) == p = end

is_digit(c) == c \in Digits

finalising(begin, end) == begin = end

\* `yield;' : remember the resume point and leave the call.
Yield(np, line, p) ==
  [np |-> [np EXCEPT !.value = line], p |-> p, oob |-> FALSE]

\* YieldBreak, had it left the call without terminating the coroutine
YieldBreak_NotComplete(np, p) == [np |-> np, p |-> p, oob |-> FALSE]

\* YieldBreak, had it stepped over the byte that ended the number
YieldBreak_Consumes(np, p) ==
  [np |-> [np EXCEPT !.value = Complete], p |-> p + 1, oob |-> FALSE]

\* `yield break;' : the coroutine terminates.
YieldBreak(np, p) ==
  [np |-> [np EXCEPT !.value = Complete], p |-> p, oob |-> FALSE]

\* FallOff, had leaving the block by its end not terminated the coroutine
FallOff_NotComplete(np, p) == [np |-> np, p |-> p, oob |-> FALSE]

\* control leaves the reenter block by its closing brace.
FallOff(np, p) ==
  [np |-> [np EXCEPT !.value = Complete], p |-> p, oob |-> FALSE]

SetError(np) == [np EXCEPT !.error_ = InvalidArgument]

\* program points of the body that read *p
Reads ==
  {"sign", "zero", "zero_next", "int_loop", "frac_loop", "exp_sign",
   "exp_loop"}

RECURSIVE Run(_, _, _, _, _, _)

\* `if (consume()) { yield; ... }' followed by the code at `point'.
ConsumeThen(np, line, point, buf, begin, end, p) ==
  IF exhausted(p + 1, end)
    THEN Yield(np, line, p + 1)
    ELSE Run(point, np, buf, begin, end, p + 1)

\* [+-]?
AtSign(np, buf, begin, end, p) ==
  LET c == buf[p + 1] IN
  IF c = "+"
    THEN ConsumeThen(np, 142, "zero", buf, begin, end, p)
  ELSE IF c = "-"
    THEN ConsumeThen([np EXCEPT !.mantissa_ = mantissa_notify_negative(@)],
                     155, "zero", buf, begin, end, p)
  ELSE Run("zero", np, buf, begin, end, p)

\* if (*p == '0') { if (consume()) ... }
AtZero(np, buf, begin, end, p) ==
  LET c == buf[p + 1] IN
  IF c = "0"
    THEN ConsumeThen(np, 168, "zero_next", buf, begin, end, p)
    ELSE Run("int_loop", np, buf, begin, end, p)

\* AtZeroNext, had a leading zero been treated like any other digit
AtZeroNext_NoRule(np, buf, begin, end, p) ==
  Run("int_loop", np, buf, begin, end, p)

\* leading zero must be followed by a . or nothing
AtZeroNext(np, buf, begin, end, p) ==
  LET c == buf[p + 1] IN
  IF c # "."
    THEN YieldBreak(SetError(np), p)
    ELSE Run("on_mantissa_decimal", np, buf, begin, end, p)

\* keep consuming leading digits, then look for an exponent or a point
AtIntLoop(np, buf, begin, end, p) ==
  LET c == buf[p + 1] IN
  IF is_digit(c)
    THEN ConsumeThen([np EXCEPT !.mantissa_ = mantissa_notify_digit(@, c)],
                     187, "int_loop", buf, begin, end, p)
  ELSE IF c = "e" \/ c = "E"
    THEN Run("on_exponent_start", np, buf, begin, end, p)
  ELSE IF c # "."
    THEN YieldBreak(np, p)
  ELSE Run("on_mantissa_decimal", np, buf, begin, end, p)

OnMantissaDecimal(np, buf, begin, end, p) ==
  ConsumeThen([np EXCEPT !.mantissa_ = mantissa_notify_decimal(@)],
              210, "frac_loop", buf, begin, end, p)

AtFracLoop(np, buf, begin, end, p) ==
  LET c == buf[p + 1] IN
  IF is_digit(c)
    THEN ConsumeThen([np EXCEPT !.mantissa_ = mantissa_notify_digit(@, c)],
                     222, "frac_loop", buf, begin, end, p)
  ELSE IF c # "e" /\ c # "E"
    THEN YieldBreak(np, p)
  ELSE Run("on_exponent_start", np, buf, begin, end, p)

OnExponentStart(np, buf, begin, end, p) ==
  ConsumeThen(np, 238, "exp_sign", buf, begin, end, p)

AtExpSign(np, buf, begin, end, p) ==
  LET c == buf[p + 1] IN
  IF c = "-"
    THEN ConsumeThen([np EXCEPT !.exponent_ = exponent_notify_negative(@)],
                     250, "exp_loop", buf, begin, end, p)
  ELSE IF c = "+"
    THEN ConsumeThen(np, 262, "exp_loop", buf, begin, end, p)
  ELSE Run("exp_loop", np, buf, begin, end, p)

AtExpLoop(np, buf, begin, end, p) ==
  LET c == buf[p + 1] IN
  IF is_digit(c)
    THEN ConsumeThen([np EXCEPT !.exponent_ = exponent_notify_digit(@, c)],
                     275, "exp_loop", buf, begin, end, p)
    ELSE FallOff(np, p)

\* the body of the reenter block from `point' on, with p inside the chunk;
\* a read of *p outside [begin, end) is flagged and stops the run.
Run(point, np, buf, begin, end, p) ==
  IF point \in Reads /\ ~(begin <= p /\ p < end)
    THEN [np |-> np, p |-> p, oob |-> TRUE]
  ELSE
  CASE point = "sign" -> AtSign(np, buf, begin, end, p)
    [] point = "zero" -> AtZero(np, buf, begin, end, p)
    [] point = "zero_next" -> AtZeroNext(np, buf, begin, end, p)
    [] point = "int_loop" -> AtIntLoop(np, buf, begin, end, p)
    [] point = "on_mantissa_decimal" ->
         OnMantissaDecimal(np, buf, begin, end, p)
    [] point = "frac_loop" -> AtFracLoop(np, buf, begin, end, p)
    [] point = "on_exponent_start" ->
         OnExponentStart(np, buf, begin, end, p)
    [] point = "exp_sign" -> AtExpSign(np, buf, begin, end, p)
    [] point = "exp_loop" -> AtExpLoop(np, buf, begin, end, p)

\* ErrorAtEnd, had a digit been required after the decimal point
ErrorAtEnd_FractionRequired(line) == line \in {142, 155, 210, 238, 250, 262}

\* ErrorAtEnd, had the end of the stream after an exponent sign been accepted
ErrorAtEnd_NoExpSign(line) == line \in {142, 155, 238}

\* what `if (finalising()) ...' does right after the yield at `line':
\* TRUE where the end of the stream there is an error.
ErrorAtEnd(line) == line \in {142, 155, 238, 250, 262}

\* ResumePoint, had the integer digit run resumed in the fraction digit run
ResumePoint_IntAsFrac(line) ==
  CASE line \in {142, 155} -> "zero"
    [] line = 168 -> "zero_next"
    [] line \in {187, 210, 222} -> "frac_loop"
    [] line = 238 -> "exp_sign"
    [] line \in {250, 262, 275} -> "exp_loop"

\* ResumePoint, had the fraction digit run resumed in the integer digit run
ResumePoint_FracAsInt(line) ==
  CASE line \in {142, 155} -> "zero"
    [] line = 168 -> "zero_next"
    [] line \in {187, 222} -> "int_loop"
    [] line = 210 -> "frac_loop"
    [] line = 238 -> "exp_sign"
    [] line \in {250, 262, 275} -> "exp_loop"

\* the program point that follows the yield at `line'
ResumePoint(line) ==
  CASE line = 142 -> "zero"
    [] line = 155 -> "zero"
    [] line = 168 -> "zero_next"
    [] line = 187 -> "int_loop"
    [] line = 210 -> "frac_loop"
    [] line = 222 -> "frac_loop"
    [] line = 238 -> "exp_sign"
    [] line = 250 -> "exp_loop"
    [] line = 262 -> "exp_loop"
    [] line = 275 -> "exp_loop"

\* Reenter, had a complete parser started over on the next chunk
Reenter_Restart(np, buf, begin, end) ==
  IF finalising(begin, end)
    THEN IF np.value = Fresh \/ ErrorAtEnd(np.value)
           THEN YieldBreak(SetError(np), begin)
           ELSE YieldBreak(np, begin)
  ELSE IF is_complete(np) \/ np.value = Fresh
    THEN Run("sign", np, buf, begin, end, begin)
  ELSE Run(ResumePoint(np.value), np, buf, begin, end, begin)

\* Reenter, had an empty range on a fresh parser ended the number quietly
Reenter_EmptyAccepted(np, buf, begin, end) ==
  IF is_complete(np)
    THEN [np |-> np, p |-> begin, oob |-> FALSE]
  ELSE IF finalising(begin, end)
    THEN IF ErrorAtEnd(np.value)
           THEN YieldBreak(SetError(np), begin)
           ELSE YieldBreak(np, begin)
  ELSE IF np.value = Fresh
    THEN Run("sign", np, buf, begin, end, begin)
  ELSE Run(ResumePoint(np.value), np, buf, begin, end, begin)

\* reenter(this) { ... } : the body of operator(), entered at value_.
Reenter(np, buf, begin, end) ==
  IF is_complete(np)
    THEN [np |-> np, p |-> begin, oob |-> FALSE]
  ELSE IF np.value = Fresh
    THEN IF finalising(begin, end)
           THEN YieldBreak(SetError(np), begin)
           ELSE Run("sign", np, buf, begin, end, begin)
  ELSE IF finalising(begin, end)
    THEN IF ErrorAtEnd(np.value)
           THEN YieldBreak(SetError(np), begin)
           ELSE YieldBreak(np, begin)
  ELSE Run(ResumePoint(np.value), np, buf, begin, end, begin)

\* number_parser::operator()(begin, end)
Call(np, buf, begin, end) ==
  LET r == Reenter(np, buf, begin, end) IN
  IF finalising(begin, end)
    THEN [r EXCEPT !.np.mantissa_ = mantissa_finalise(@),
                   !.np.exponent_ = exponent_finalise(@)]
    ELSE r

\* number_parser::finalise()
finalise(np) ==
  IF np.error_ = None THEN Call(np, <<>>, 0, 0).np ELSE np

get_number(np) == [mantissa |-> np.mantissa_, exponent |-> np.exponent_]

\* struct result, built from a parser
result(np) == [ec |-> np.error_, n |-> get_number(np)]

\* ------------------------------------------------------------------ grind
\* grind, lines 364-369: the whole input in one call
Baseline(s) ==
  LET r == Call(number_parser, s, 0, Len(s))
      np_base == IF ~is_complete(r.np) THEN finalise(r.np) ELSE r.np
  IN [res |-> result(np_base), consumed |-> r.p]

\* grind, lines 373-380: prefix [0, i), then the suffix
SplitCheck(s, i) ==
  LET r1 == Call(number_parser, s, 0, i)
      r2 == IF ~is_complete(r1.np) /\ r1.np.error_ = None
              THEN Call(r1.np, s, r1.p, Len(s))
              ELSE r1
      np1 == IF ~is_complete(r2.np) THEN finalise(r2.np) ELSE r2.np
  IN [res |-> result(np1), consumed |-> r2.p]

RECURSIVE GrindLoop(_, _, _, _)

\* grind, lines 371-390: the loop over the split points; a mismatch throws
GrindLoop(s, base, i, checks) ==
  IF ~(i < Len(s))
    THEN [ran |-> TRUE, threw |-> FALSE, base |-> base, checks |-> checks]
  ELSE LET chk == SplitCheck(s, i) IN
       IF chk.res # base.res \/ chk.consumed # base.consumed
         THEN [ran |-> TRUE, threw |-> TRUE, base |-> base,
               checks |-> Append(checks, chk)]
         ELSE GrindLoop(s, base, i + 1, Append(checks, chk))

grind(s) == GrindLoop(s, Baseline(s), 1, <<>>)

\* ---------------------------------------------------------- state machine
VARIABLES
  input,  \* the bytes of the outer stream
  np,     \* the parser the caller drives
  next,   \* position in input up to which the parser has consumed
  fins,   \* one entry per finalise() made: was the parser complete before
  call,   \* the last call made on np
  fed,    \* number of chunks fed to np while it was not complete
  gr      \* outcome of grind(input), when it was run

vars == <<input, np, next, fins, call, fed, gr>>

NoCall == [op |-> "none", begin |-> 0, end |-> 0, ret |-> 0,
           pre |-> Fresh, oob |-> FALSE]

NoGrind == [ran |-> FALSE, threw |-> FALSE,
            base |-> [res |-> result(number_parser), consumed |-> 0],
            checks |-> <<>>]

Init ==
  /\ input \in Inputs
  /\ np = number_parser
  /\ next = 0
  /\ fins = <<>>
  /\ call = NoCall
  /\ fed = 0
  /\ gr = NoGrind

\* next = np(next, next + n) with a non-empty chunk of the input
Feed(n) ==
  /\ ~gr.ran
  /\ n >= 1
  /\ next + n <= Len(input)
  /\ LET r == Call(np, input, next, next + n) IN
       /\ np' = r.np
       /\ next' = r.p
       /\ call' = [op |-> "feed", begin |-> next, end |-> next + n,
                   ret |-> r.p, pre |-> np.value, oob |-> r.oob]
  /\ fed' = IF is_complete(np) THEN fed ELSE fed + 1
  /\ UNCHANGED <<input, fins, gr>>

\* np.finalise()
Finalise ==
  /\ ~gr.ran
  /\ Len(fins) < MaxFinalise
  /\ np' = finalise(np)
  /\ fins' = Append(fins, is_complete(np))
  /\ call' = [op |-> "finalise", begin |-> 0, end |-> 0, ret |-> 0,
              pre |-> np.value, oob |-> FALSE]
  /\ UNCHANGED <<input, next, fed, gr>>

\* np(next, next) : the empty range, the end-of-stream signal, passed to
\* operator() directly
FeedEmpty ==
  /\ ~gr.ran
  /\ Len(fins) < MaxFinalise
  /\ LET r == Call(np, input, next, next) IN
       /\ np' = r.np
       /\ next' = r.p
       /\ call' = [op |-> "feed_empty", begin |-> next, end |-> next,
                   ret |-> r.p, pre |-> np.value, oob |-> r.oob]
  /\ fins' = Append(fins, is_complete(np))
  /\ UNCHANGED <<input, fed, gr>>

\* grind(input), on its own parsers
RunGrind ==
  /\ ~gr.ran
  /\ call = NoCall
  /\ gr' = grind(input)
  /\ UNCHANGED <<input, np, next, fins, call, fed>>

Next ==
  \/ \E n \in 1..Len(input) : Feed(n)
  \/ Finalise
  \/ FeedEmpty
  \/ RunGrind

Spec == Init /\ [][Next]_vars

\* ------------------------------------------------------- claim vocabulary
S_100_0 == <<"1", "0", "0", ".", "0">>
S_100_0x == <<"1", "0", "0", ".", "0", "x">>
E0 == <<"e", "0">>

\* the calls made so far follow the feed protocol: chunks, then at most one
\* finalise, made after the last byte was fed and only if the parser was
\* not complete
Protocol == fins = <<>> \/ (fins = <<FALSE>> /\ next = Len(input))

\* the parse is over: the parser is complete and the protocol was followed
Done == is_complete(np) /\ Protocol

\* s, fed whole and finalised, is accepted to its last byte
AcceptedWhole(s) ==
  /\ Baseline(s).res.ec = None
  /\ Baseline(s).consumed = Len(s)

\* C1: whenever grind has run on an input, no split check disagreed with
\* the whole-input parse: grind did not throw, it made one check per split
\* index 1 <= i < length, and each check ended with the same error, mantissa
\* text, exponent text and consumed length as the baseline.  (Checked for
\* every input of the model, the valid number strings among them.)
C1_SplitInvariance ==
  gr.ran =>
    /\ ~gr.threw
    /\ Len(gr.checks) = (IF Len(input) = 0 THEN 0 ELSE Len(input) - 1)
    /\ \A i \in 1..Len(gr.checks) :
         /\ gr.checks[i].res = gr.base.res
         /\ gr.checks[i].consumed = gr.base.consumed

\* grind ran over a valid number with an exponent and made its split checks
C1_Witness ==
  /\ gr.ran
  /\ AcceptedWhole(input)
  /\ Len(gr.checks) >= 3
  /\ \E i \in 1..Len(input) : input[i] \in {"e", "E"}

\* C2: for any input (valid, invalid, with trailing garbage) and any
\* partition into non-empty chunks fed in order until the parser is
\* complete, then finalised if it is not, the error, the mantissa text, the
\* exponent text and the number of consumed bytes are those of feeding the
\* input as a single chunk.
C2_ChunkingIndependence ==
  Done =>
    /\ result(np) = Baseline(input).res
    /\ next = Baseline(input).consumed

\* a parse of three or more chunks ended by finalise without error
C2_Witness ==
  /\ Done
  /\ fed >= 3
  /\ fins = <<FALSE>>
  /\ np.error_ = None

\* a parse of two or more chunks that stopped at trailing garbage
C2_WitnessGarbage ==
  /\ Done
  /\ fed >= 2
  /\ fins = <<>>
  /\ np.error_ = None
  /\ next < Len(input)

\* C3: grind("100.0") returns error None with mantissa "100.0" and exponent
\* "e0"; the baseline and each of the 4 split checks consumed 5 bytes; no
\* grind_failure is raised.
C3_Grind100 ==
  (gr.ran /\ input = S_100_0) =>
    /\ ~gr.threw
    /\ gr.base.res = [ec |-> None,
                      n |-> [mantissa |-> S_100_0, exponent |-> E0]]
    /\ gr.base.consumed = 5
    /\ Len(gr.checks) = 4
    /\ \A i \in 1..4 : gr.checks[i].consumed = 5
    /\ \A i \in 1..4 : gr.checks[i].res = gr.base.res

C3_Witness == gr.ran /\ input = S_100_0

\* C4: after a feed of a non-empty chunk to a parser that was not complete,
\* either the returned position is the chunk's end and the parser is
\* suspended with error None, or the returned position is strictly before
\* the chunk's end, is the position of the first unconsumed byte, and the
\* parser is complete.
C4_PositionAndState ==
  (call.op = "feed" /\ call.pre # Complete) =>
    \/ /\ call.ret = call.end
       /\ ~is_complete(np)
       /\ np.error_ = None
    \/ /\ call.begin <= call.ret
       /\ call.ret < call.end
       /\ next = call.ret
       /\ is_complete(np)

\* a later chunk that the parser left before its end
C4_Witness ==
  /\ call.op = "feed"
  /\ call.pre # Complete
  /\ call.pre # Fresh
  /\ call.begin < call.ret
  /\ call.ret < call.end
  /\ is_complete(np)

\* u is accepted whole, or becomes so with one more byte
Viable(u) ==
  AcceptedWhole(u) \/ \E c \in Alphabet : AcceptedWhole(Append(u, c))

\* the first k bytes of the input are a number accepted whole and the byte
\* after them cannot continue it
GarbageAt(k) ==
  /\ AcceptedWhole(SubSeq(input, 1, k))
  /\ ~Viable(SubSeq(input, 1, k + 1))

\* v is an optionally signed lone "0"
LoneZero(v) == v \in {<<"0">>, <<"+", "0">>, <<"-", "0">>}

\* C5 as stated: once a chunk holding the byte that follows a valid number
\* and cannot continue it has been fed, the parser is Complete with error
\* None and has consumed up to that byte, not beyond; "100.0x" fed as one
\* chunk returns position 5, and a finalise then leaves ("100.0", "e0").
C5_Original ==
  /\ (fins = <<>> /\ call.op = "feed") =>
       \A k \in 1..(Len(input) - 1) :
         (call.end > k /\ GarbageAt(k)) =>
           /\ is_complete(np)
           /\ np.error_ = None
           /\ next = k
  /\ (input = S_100_0x /\ call.op = "feed" /\ call.pre = Fresh
        /\ call.end = 6) => call.ret = 5
  /\ (input = S_100_0x /\ fins = <<TRUE>> /\ next = 5) =>
       result(np) = [ec |-> None,
                     n |-> [mantissa |-> S_100_0, exponent |-> E0]]

\* C5 amended: the same, for every valid number that is not an optionally
\* signed lone "0" (after which any byte but '.' is an error).
C5_TrailingGarbage ==
  /\ (fins = <<>> /\ call.op = "feed") =>
       \A k \in 1..(Len(input) - 1) :
         (call.end > k /\ GarbageAt(k)
            /\ ~LoneZero(SubSeq(input, 1, k))) =>
           /\ is_complete(np)
           /\ np.error_ = None
           /\ next = k
  /\ (input = S_100_0x /\ call.op = "feed" /\ call.pre = Fresh
        /\ call.end = 6) => call.ret = 5
  /\ (input = S_100_0x /\ fins = <<TRUE>> /\ next = 5) =>
       result(np) = [ec |-> None,
                     n |-> [mantissa |-> S_100_0, exponent |-> E0]]

\* "100.0x" fed in two or more chunks, stopped at 'x', then finalised
C5_Witness ==
  /\ input = S_100_0x
  /\ fed >= 2
  /\ fins = <<TRUE>>
  /\ next = 5
  /\ GarbageAt(5)

\* 1-based index of the first byte after the optional sign
ZeroAt == IF Len(input) >= 1 /\ input[1] \in {"+", "-"} THEN 2 ELSE 1

\* after the optional sign, the first digit is '0'
LeadingZero == Len(input) >= ZeroAt /\ input[ZeroAt] = "0"

\* C6: with a first digit '0' after the optional sign: (a) the end of the
\* stream right after it is valid, and "0" alone gives Number("0", "e0");
\* (b) "0." finalises with error None; (c) once a chunk holding a next byte
\* other than '.' has been fed, the error is InvalidArgument, the parser is
\* terminated and that byte is not consumed, in whichever chunk it arrived.
C6_LeadingZero ==
  /\ (input = <<"0">> /\ Done /\ fins = <<FALSE>>) =>
       result(np) = [ec |-> None,
                     n |-> [mantissa |-> <<"0">>, exponent |-> E0]]
  /\ (LeadingZero /\ Len(input) = ZeroAt /\ Done /\ fins = <<FALSE>>) =>
       np.error_ = None
  /\ (LeadingZero /\ Len(input) = ZeroAt + 1 /\ input[Len(input)] = "."
        /\ Done /\ fins = <<FALSE>>) =>
       np.error_ = None
  /\ (LeadingZero /\ Len(input) > ZeroAt /\ fins = <<>>
        /\ call.op = "feed" /\ call.end > ZeroAt) =>
       \/ input[ZeroAt + 1] = "."
       \/ /\ np.error_ = InvalidArgument
          /\ is_complete(np)
          /\ next = ZeroAt

\* the byte after the leading zero arrived in a later chunk and was refused
C6_Witness ==
  /\ LeadingZero
  /\ Len(input) > ZeroAt
  /\ input[ZeroAt + 1] \in Digits
  /\ call.op = "feed"
  /\ call.begin = ZeroAt
  /\ call.pre # Complete
  /\ np.error_ = InvalidArgument

\* C7: a finalise that arrives while the parser is suspended right after a
\* lone sign, an exponent marker or an exponent sign sets InvalidArgument;
\* so do "-", "+", "1e", "1e-", "1e+" followed by finalise, however chunked.
C7_IncompleteAtEnd ==
  /\ (call.op = "finalise" /\ call.pre # Fresh /\ call.pre # Complete
        /\ Len(fins) = 1 /\ next >= 1) =>
       \/ input[next] \notin {"+", "-", "e", "E"}
       \/ np.error_ = InvalidArgument
  /\ (input \in {<<"-">>, <<"+">>, <<"1", "e">>, <<"1", "e", "-">>,
                 <<"1", "e", "+">>}
        /\ Done /\ fins = <<FALSE>>) =>
       np.error_ = InvalidArgument

\* "1e-" arrived in separate chunks and was then finalised
C7_Witness ==
  /\ input = <<"1", "e", "-">>
  /\ fed = 3
  /\ call.op = "finalise"
  /\ fins = <<FALSE>>
  /\ np.error_ = InvalidArgument

\* the bytes of s before its first exponent marker
RECURSIVE Significand(_)
Significand(s) ==
  IF s = <<>> \/ Head(s) \in {"e", "E"}
    THEN <<>>
    ELSE <<Head(s)>> \o Significand(Tail(s))

\* the bytes of s after its first exponent marker
ExponentClause(s) == SubSeq(s, Len(Significand(s)) + 2, Len(s))

StripPlus(s) == IF s # <<>> /\ Head(s) = "+" THEN Tail(s) ELSE s

Count(s, ch) == Cardinality({i \in 1..Len(s) : s[i] = ch})

\* the bytes the parser consumed
Consumed == SubSeq(input, 1, next)

\* C8 as stated: for an input accepted with error None whose consumed
\* significand holds a digit, the finalised mantissa text is the consumed
\* significand with only a leading '+' removed; "0.5" gives "0.5" and "-0"
\* gives "-0".
C8_MantissaIsSignificand ==
  (Len(fins) = 1 /\ is_complete(np) /\ np.error_ = None
     /\ \E i \in 1..Len(Significand(Consumed)) :
          Significand(Consumed)[i] \in Digits) =>
    np.mantissa_ = StripPlus(Significand(Consumed))

\* C9: a leading '+' is consumed and leaves no trace: the outcome is that
\* of the input without it; a leading '-' is appended to the mantissa once,
\* before anything else; no other minus sign reaches the mantissa.  "+5"
\* gives mantissa "5" and "-5" gives "-5", both with error None and
\* exponent "e0", however the sign and the digit are chunked.
C9_SignHandling ==
  /\ (input = <<"+", "5">> /\ Done /\ fins = <<FALSE>>) =>
       result(np) = [ec |-> None,
                     n |-> [mantissa |-> <<"5">>, exponent |-> E0]]
  /\ (input = <<"-", "5">> /\ Done /\ fins = <<FALSE>>) =>
       result(np) = [ec |-> None,
                     n |-> [mantissa |-> <<"-", "5">>, exponent |-> E0]]
  /\ Count(np.mantissa_, "+") = 0
  /\ (next >= 1 /\ input[1] = "-") =>
       /\ np.mantissa_ # <<>>
       /\ Head(np.mantissa_) = "-"
       /\ Count(np.mantissa_, "-") = 1
  /\ (next >= 1 /\ input[1] # "-") => Count(np.mantissa_, "-") = 0
  /\ (Done /\ Len(input) >= 2 /\ input[1] = "+"
        /\ input[2] \notin {"+", "-"}) =>
       /\ result(np) = Baseline(Tail(input)).res
       /\ next = Baseline(Tail(input)).consumed + 1

\* "-5" with the sign and the digit in separate chunks, finalised
C9_Witness ==
  /\ input = <<"-", "5">>
  /\ fed = 2
  /\ Done
  /\ fins = <<FALSE>>

\* the exponent text the claim expects for the consumed bytes s
ExpectedExponent(s) ==
  IF Significand(s) = s
    THEN E0
    ELSE <<"e">> \o StripPlus(ExponentClause(s))

\* t is 'e', an optional '-', then one or more digits
WellFormedExponent(t) ==
  /\ Len(t) >= 2
  /\ t[1] = "e"
  /\ LET d == IF t[2] = "-" THEN SubSeq(t, 3, Len(t))
                            ELSE SubSeq(t, 2, Len(t))
     IN /\ d # <<>>
        /\ \A i \in 1..Len(d) : d[i] \in Digits

\* C10 as stated: for an input accepted with error None (and holding a
\* digit in its significand), after exactly one finalise the exponent text is 'e', an optional '-', and at least one
\* digit; it is "e0" without an exponent clause, and otherwise 'e', the
\* '-' of the clause if any, and the clause's digits in order.
C10_ExponentNormalised ==
  (Len(fins) = 1 /\ is_complete(np) /\ np.error_ = None
     /\ \E i \in 1..Len(Significand(Consumed)) :
          Significand(Consumed)[i] \in Digits) =>
    /\ WellFormedExponent(np.exponent_)
    /\ np.exponent_ = ExpectedExponent(Consumed)

\* the consumed significand holds a digit
SignificandHasDigit ==
  \E i \in 1..Len(Significand(Consumed)) :
    Significand(Consumed)[i] \in Digits

\* C11 as stated: once an exponent marker has been consumed (after a
\* significand holding a digit), the parser is not Complete with error None
\* unless an exponent digit was appended; a non-digit after the marker or
\* the exponent sign gives InvalidArgument.
C11_ExponentDigitsMandatory ==
  (fins = <<>> /\ is_complete(np) /\ np.error_ = None
     /\ SignificandHasDigit
     /\ Significand(Consumed) # Consumed) =>
    \E i \in 1..Len(np.exponent_) : np.exponent_[i] \in Digits

\* C12 as stated: a finalise() made after an earlier one changes neither
\* the error nor the mantissa text nor the exponent text.
C12_FinaliseIdempotent ==
  [][(Len(fins) >= 1 /\ Len(fins') = Len(fins) + 1
        /\ call'.op = "finalise") =>
       /\ np'.error_ = np.error_
       /\ np'.mantissa_ = np.mantissa_
       /\ np'.exponent_ = np.exponent_]_vars

\* the only call made on the parser so far was the empty range
FirstCallEmpty ==
  /\ call.op \in {"feed_empty", "finalise"}
  /\ call.pre = Fresh
  /\ fins = <<FALSE>>
  /\ fed = 0

\* C13: an empty range fed as the very first call to a fresh parser sets
\* the error to InvalidArgument, leaves the parser terminated, and returns
\* the position it was given; nothing of the input is consumed.
C13_EmptyInput ==
  FirstCallEmpty =>
    /\ np.error_ = InvalidArgument
    /\ is_complete(np)
    /\ call.ret = call.begin
    /\ next = 0

\* the empty range was passed to operator() as the first call, with input
\* still unfed
C13_Witness ==
  /\ FirstCallEmpty
  /\ call.op = "feed_empty"
  /\ Len(input) >= 1
  /\ np.error_ = InvalidArgument

\* 1-based index of the first '.' of the input, 0 when it has none
PointAt ==
  IF \E i \in 1..Len(input) : input[i] = "."
    THEN CHOOSE i \in 1..Len(input) :
           input[i] = "." /\ \A j \in 1..(i - 1) : input[j] # "."
    ELSE 0

\* s is an optional sign and an integer part: "0", or digits not led by '0'
IntegerPart(s) ==
  LET d == IF s # <<>> /\ Head(s) \in {"+", "-"} THEN Tail(s) ELSE s IN
  /\ d # <<>>
  /\ \A i \in 1..Len(d) : d[i] \in Digits
  /\ (Head(d) = "0" => Len(d) = 1)

\* the input is an integer part, a '.', and whatever follows
PointAfterInteger ==
  PointAt >= 2 /\ IntegerPart(SubSeq(input, 1, PointAt - 1))

\* C14: a '.' after the integer part (or a leading '0') is appended to the
\* mantissa once and only once; a non-digit byte right after it raises no
\* error, and ends the number there unless it is an exponent marker; the
\* end of the stream right after it raises no error either.  "1." then
\* finalise gives error None and mantissa "1."; "1.x" completes at position
\* 2 with error None; all of it for every chunking.
C14_FractionWithoutDigits ==
  /\ (PointAfterInteger /\ next >= PointAt) =>
       Count(np.mantissa_, ".") = 1
  /\ (PointAfterInteger /\ fins = <<>> /\ call.op = "feed"
        /\ Len(input) > PointAt /\ call.end > PointAt) =>
       \/ input[PointAt + 1] \in Digits
       \/ /\ np.error_ = None
          /\ \/ input[PointAt + 1] \in {"e", "E"}
             \/ is_complete(np) /\ next = PointAt
  /\ (PointAfterInteger /\ Len(input) = PointAt /\ Done
        /\ fins = <<FALSE>>) =>
       np.error_ = None
  /\ (input = <<"1", ".">> /\ Done /\ fins = <<FALSE>>) =>
       np.mantissa_ = <<"1", ".">>
  /\ (input = <<"1", ".", "x">> /\ fins = <<>> /\ call.op = "feed"
        /\ call.end = 3) =>
       /\ is_complete(np)
       /\ np.error_ = None
       /\ next = 2

\* "1." arrived with the point in a chunk of its own and was then finalised
C14_Witness ==
  /\ input = <<"1", ".">>
  /\ fed = 2
  /\ Done
  /\ fins = <<FALSE>>
  /\ np.error_ = None

\* C15: a non-empty chunk fed to a parser that is Complete or Failed
\* consumes nothing (the returned position is the chunk's begin) and leaves
\* the error, both texts and the completion state as they were; the error
\* only ever changes from None to InvalidArgument, in a step that leaves
\* the parser terminated.
C15_TerminalAbsorbing ==
  [][/\ (is_complete(np) /\ call'.op = "feed" /\ fins' = fins
           /\ gr' = gr) =>
          /\ np' = np
          /\ next' = next
          /\ call'.ret = call'.begin
     /\ (np'.error_ # np.error_) =>
          /\ np.error_ = None
          /\ np'.error_ = InvalidArgument
          /\ is_complete(np')]_vars

\* a non-empty chunk was fed to a parser that had failed
C15_Witness ==
  /\ call.op = "feed"
  /\ call.pre = Complete
  /\ call.end > call.begin
  /\ np.error_ = InvalidArgument

\* C16: a parser whose error is set is complete; after a finalise (by
\* finalise() or by the empty range) the parser is complete, never
\* suspended; grind ends after one split check per index 1 <= i < length.
C16_TerminalAtEnd ==
  /\ (np.error_ # None) => is_complete(np)
  /\ (Len(fins) >= 1) => is_complete(np)
  /\ gr.ran =>
       Len(gr.checks) = (IF Len(input) = 0 THEN 0 ELSE Len(input) - 1)

\* several chunks left the parser suspended and the finalise ended it
C16_Witness ==
  /\ fed >= 2
  /\ fins = <<FALSE>>
  /\ call.op = "finalise"
  /\ call.pre \notin {Fresh, Complete}
  /\ is_complete(np)

\* C17 as stated: the parser is never complete with error None unless the
\* byte consumed after the optional sign is a digit.
C17_NoDigitlessSuccess ==
  (is_complete(np) /\ np.error_ = None) =>
    /\ Len(Consumed) >= ZeroAt
    /\ Consumed[ZeroAt] \in Digits

\* C18 as stated: a result that grind returns with error None has a
\* non-empty mantissa text and an exponent text made of 'e' and at least
\* one further character, also when the number ends before the input does.
C18_GrindResultFinalised ==
  (gr.ran /\ ~gr.threw /\ gr.base.res.ec = None) =>
    /\ gr.base.res.n.mantissa # <<>>
    /\ Len(gr.base.res.n.exponent) >= 2
    /\ Head(gr.base.res.n.exponent) = "e"

\* C19: in every call of operator() the parser reads no byte outside the
\* chunk [begin, end) it was given, and the position it returns lies in
\* [begin, end] and is the caller's new position, so that no byte is
\* consumed twice.
C19_ChunkBounds ==
  (call.op \in {"feed", "feed_empty"}) =>
    /\ ~call.oob
    /\ call.begin <= call.ret
    /\ call.ret <= call.end
    /\ next = call.ret
    /\ next <= Len(input)

\* a later chunk was read to its last byte and the parser wants more
C19_Witness ==
  /\ call.op = "feed"
  /\ fed >= 2
  /\ call.begin > 0
  /\ call.ret = call.end
  /\ ~is_complete(np)
  /\ ~call.oob

====
